---- MODULE Spec2Model ----
(***************************************************************************)
(* Model of the image-to-note job pipeline: the ProcessingQueue scheduler  *)
(* (services/processingQueue.ts, revision with maxConcurrent/activeJobs)   *)
(* and the pipeline runner ImageTranscriberPlugin.processImageFile         *)
(* (main.ts) that the plugin installs as the queue's process callback.     *)
(*                                                                         *)
(* A vault path is a sequence of segments (<<"Notes","a.jpg">> stands for  *)
(* "Notes/a.jpg", <<>> for the vault root).  A TFile is an object whose    *)
(* path Obsidian updates in place on rename, so files are identified by    *)
(* their index in `files` and a job holds the index, not the path.         *)
(***************************************************************************)
EXTENDS Integers, Sequences, FiniteSets, TLC

\* ---------------------------------------------------------------- bounds
MaxFiles == 3
MaxRestarts == 1
MaxLimitArg == 2
MaxFaults == 1
MaxInvocations == 2
MaxClears == 1
MaxImports == 2
MaxLimitRequest == 7

\* ------------------------------------------------------- program constants
DefaultMaxConcurrent == 2
MinConcurrent == 1
MaxConcurrent == 5

\* ------------------------------------------------------------ vault paths
Root == << >>
NotesDir == <<"Notes">>
PicsDir == <<"Pics">>
OutDir == <<"Out">>
DefaultImageFolderName == "Images"

\* paths at which the user drops new images
DropPaths == { <<"Notes", "a.jpg">>, <<"Notes", "c.heic">> }

\* file.name
FileName(p) == p[Len(p)]

\* file.extension.toLowerCase()
Extension(p) == IF FileName(p) = "c.heic" THEN "heic" ELSE "jpg"

\* `${heicFile.basename}.jpg`
JpgName(name) == IF name = "c.heic" THEN "c.jpg" ELSE name

\* getParentFolderPath: everything before the last separator; a path with
\* no separator yields '/', which normalizePath and the joins below treat as
\* the vault root.
getParentFolderPath(p) == IF Len(p) <= 1 THEN Root ELSE SubSeq(p, 1, Len(p) - 1)

\* normalizePath(`${folder}/${name}`)
Join(folder, name) == Append(folder, name)

\* all proper and improper non-root prefixes of a folder path
Prefixes(folder) == { SubSeq(folder, 1, k) : k \in 1..Len(folder) }

\* ---------------------------------------------------------- configuration
DefaultSettings ==
    [ imageDestinationOption |-> "subfolder",
      specificImageFolderPath |-> Root,
      imageFolderName |-> "Images",
      noteDestinationOption |-> "alongside",
      specificNoteFolderPath |-> Root,
      transcribeOnlySpecificFolder |-> FALSE,
      specificFolderForTranscription |-> Root,
      verboseNotifications |-> FALSE ]

Configs ==
    { DefaultSettings,
      [DefaultSettings EXCEPT !.imageDestinationOption = "specificFolder",
                              !.specificImageFolderPath = PicsDir,
                              !.noteDestinationOption = "specificFolder",
                              !.specificNoteFolderPath = OutDir] }

VARIABLES
    files,                 \* files[f]: current path of TFile object f
    folders,               \* existing folders
    notes,                 \* notes created: [folder, image, by, session]
    settings,              \* destination settings
    processedImagePaths,   \* settings.processedImagePaths (in memory)
    persisted,             \* history as last written by saveData
    queue,                 \* ProcessingQueue.queue: [initialFile, status, error]
    isProcessing,          \* ProcessingQueue.isProcessing
    processing,            \* ProcessingQueue.processing (0 = null)
    activeJobs,            \* ProcessingQueue.activeJobs
    maxConcurrent,         \* ProcessingQueue.maxConcurrent
    run,                   \* run[j]: position and locals of the runner for job j
    inFlight,              \* runner invocations that have not returned yet
    startOrder,            \* job indices in the order the runner was invoked
    restarts,              \* plugin reloads so far
    faults,                \* collaborator failures injected so far
    droppedInEditorPaths,  \* paths flagged by handleEditorDrop
    editorDrop,            \* the editor drop being handled: [pc, file]
    clearSaving,           \* the 'Clear history' handler awaits saveSettings
    clears,                \* uses of 'Clear history' so far
    loadedData,            \* what loadData() returned to loadSettings
    historyIsArray,        \* Array.isArray(settings.processedImagePaths)
    processingPaths,       \* ImageTranscriberPlugin.processingPaths (lock set)
    importer,              \* the file-menu import being handled (when idle:
                           \* the last file it wrote): [pc, path, file]
    imports                \* files taken up by the import handler so far

vars == << files, folders, notes, settings, processedImagePaths, persisted,
           queue, isProcessing, processing, activeJobs, maxConcurrent, run,
           inFlight, startOrder, restarts, faults, droppedInEditorPaths,
           editorDrop, clearSaving, clears, loadedData, historyIsArray,
           processingPaths, importer, imports >>

NoError == "none"

\* the scheduler's fields and the runners' positions, as one record, so that
\* the synchronous call chains (addToQueue -> startProcessing -> processNext
\* -> processCallback) compose as functions
Sched ==
    [ queue |-> queue, isProcessing |-> isProcessing, processing |-> processing,
      activeJobs |-> activeJobs, maxConcurrent |-> maxConcurrent, run |-> run,
      inFlight |-> inFlight, startOrder |-> startOrder ]

SetSched(s) ==
    /\ queue' = s.queue
    /\ isProcessing' = s.isProcessing
    /\ processing' = s.processing
    /\ activeJobs' = s.activeJobs
    /\ maxConcurrent' = s.maxConcurrent
    /\ run' = s.run
    /\ inFlight' = s.inFlight
    /\ startOrder' = s.startOrder

Jobs == 1..Len(queue)

\* app.vault.getAbstractFileByPath(p) instanceof TFile
FileAt(fs, p) == \E f \in 1..Len(fs) : fs[f] = p

\* ------------------------------------------------ destination resolution
determineDestinationPathsInPlace(path, cfg) ==
    [ imageDestination |-> getParentFolderPath(path),
      noteDestination |-> getParentFolderPath(path) ]

determineDestinationPaths(path, cfg) ==
    LET currentParentPath == getParentFolderPath(path)
        imageSubfolderName ==
            IF cfg.imageFolderName # "" THEN cfg.imageFolderName
            ELSE DefaultImageFolderName
    IN [ imageDestination |->
             IF cfg.imageDestinationOption = "specificFolder"
                /\ cfg.specificImageFolderPath # Root
             THEN cfg.specificImageFolderPath
             ELSE Join(currentParentPath, imageSubfolderName),
         noteDestination |->
             IF cfg.noteDestinationOption = "specificFolder"
                /\ cfg.specificNoteFolderPath # Root
             THEN cfg.specificNoteFolderPath
             ELSE currentParentPath ]

\* ------------------------------------------------------------- job marks
markAsDone(job) ==
    IF job.status # "done" THEN [job EXCEPT !.status = "done"] ELSE job

markAsError(job, errorMessage) ==
    IF job.status # "error"
    THEN [job EXCEPT !.status = "error", !.error = errorMessage]
    ELSE job

\* --------------------------------------------------------- the scheduler
\* this.isProcessing, as tested by startProcessing and by processNext
AlreadyProcessingNever(flag) == FALSE

AlreadyProcessing(flag) == flag

\* this.activeJobs >= this.maxConcurrent
AtMaxConcurrent(active, max) == active >= max

\* this.queue.find(job => job.status === 'pending'), 0 when there is none
FindPendingLast(q) ==
    LET P == { j \in 1..Len(q) : q[j].status = "pending" }
    IN IF P = {} THEN 0 ELSE CHOOSE j \in P : \A k \in P : k <= j

FindPending(q) ==
    LET P == { j \in 1..Len(q) : q[j].status = "pending" }
    IN IF P = {} THEN 0 ELSE CHOOSE j \in P : \A k \in P : j <= k

\* queue.some(existingJob => existingJob.initialFile.path === file.path)
\*   || this.processing?.initialFile.path === file.path
IsDuplicateNever(s, fs, f) == FALSE

IsDuplicate(s, fs, f) ==
    \/ \E j \in 1..Len(s.queue) : fs[s.queue[j].initialFile] = fs[f]
    \/ /\ s.processing # 0
       /\ fs[s.queue[s.processing].initialFile] = fs[f]

NewRun(path) ==
    [ pc |-> "waiting", admittedAs |-> path, invocations |-> 0,
      fileToProcess |-> 0, imageDestination |-> Root, noteDestination |-> Root,
      finalPath |-> Root, saving |-> << >>,
      transcribeCalls |-> 0, noteCalls |-> 0, moves |-> 0,
      knownAtCheck |-> FALSE, compression |-> "none", failure |-> "none",
      thrown |-> NoError, cleared |-> "no",
      foldersMade |-> {}, errorNotices |-> 0, compressionNotices |-> 0 ]

\* processImageFile up to its first await: the destinations are resolved
\* from the initial file's path and the folder checks are issued
BeginRun(r, f, fs, cfg) ==
    LET d == determineDestinationPaths(fs[f], cfg)
    IN [ r EXCEPT !.pc = "ensureFolders",
                  !.invocations = @ + 1,
                  !.fileToProcess = f,
                  !.imageDestination = d.imageDestination,
                  !.noteDestination = d.noteDestination ]

\* processNext, up to the await of the process callback
processNext(s, fs, cfg) ==
    IF AtMaxConcurrent(s.activeJobs, s.maxConcurrent) THEN s
    ELSE IF AlreadyProcessing(s.isProcessing) THEN s
    ELSE LET nextJob == FindPending(s.queue)
         IN IF nextJob = 0
            THEN [ s EXCEPT !.isProcessing = FALSE, !.processing = 0 ]
            ELSE [ s EXCEPT !.isProcessing = TRUE,
                            !.processing = nextJob,
                            !.activeJobs = @ + 1,
                            !.inFlight = @ + 1,
                            !.startOrder = Append(@, nextJob),
                            !.run[nextJob] =
                                BeginRun(@, s.queue[nextJob].initialFile, fs, cfg) ]

startProcessing(s, fs, cfg) ==
    IF AlreadyProcessing(s.isProcessing) THEN s ELSE processNext(s, fs, cfg)

addToQueue(s, fs, cfg, f) ==
    IF IsDuplicate(s, fs, f) THEN s
    ELSE startProcessing(
             [ s EXCEPT !.queue = Append(@, [ initialFile |-> f,
                                              status |-> "pending",
                                              error |-> NoError ]),
                        !.run = Append(@, NewRun(fs[f])) ],
             fs, cfg)

\* the clean-up of the finally block of processNext: the slot is released
\* and the active-job counter is decremented
CleanUpWithoutDecrement(s, j) ==
    [ s EXCEPT !.processing = 0,
               !.isProcessing = FALSE,
               !.inFlight = @ - 1,
               !.run[j].pc = "returned" ]

CleanUp(s, j) ==
    [ s EXCEPT !.processing = 0,
               !.isProcessing = FALSE,
               !.activeJobs = @ - 1,
               !.inFlight = @ - 1,
               !.run[j].pc = "returned" ]

\* the finally block of processNext, entered when the callback's promise
\* for job j settles, and the processNext call it ends with
FinallyWithoutNext(s, fs, cfg, j) == CleanUp(s, j)

Finally(s, fs, cfg, j) == processNext(CleanUp(s, j), fs, cfg)

\* the callback returns after marking the job done / error
ReturnDone(s, fs, cfg, j) ==
    Finally([ s EXCEPT !.queue[j] = markAsDone(@) ], fs, cfg, j)

\* notifyError calls made for a failure of the stage, by the collaborator or
\* helper that failed and by processImageFile itself: ensureFolderExists
\* notifies and rethrows to the outer catch, which notifies again; an
\* unresolved final file reference is only logged to the console
ErrorNotices(stage) ==
    CASE stage = "folder" -> 2
      [] stage = "finalRef" -> 0
      [] OTHER -> 1

ReturnError(s, fs, cfg, j, reason, stage) ==
    Finally([ s EXCEPT !.queue[j] = markAsError(@, reason),
                       !.run[j].failure = stage,
                       !.run[j].errorNotices = @ + ErrorNotices(stage) ],
            fs, cfg, j)

\* the callback's promise rejects with errorMessage: the catch block of
\* processNext marks the job, then the finally block runs
ThrownUnmarked(s, fs, cfg, j, errorMessage) ==
    Finally([ s EXCEPT !.run[j].thrown = errorMessage ], fs, cfg, j)

Thrown(s, fs, cfg, j, errorMessage) ==
    Finally([ s EXCEPT !.queue[j] = markAsError(@, errorMessage),
                       !.run[j].thrown = errorMessage ],
            fs, cfg, j)

\* ------------------------------------------------------ the create handler
\* the folder-specific transcription check of handleFileCreate: the file's
\* parent folder is the selected folder (no folder selected: no file passes)
InDesignatedFolderOrBelow(path, specificFolder) ==
    LET parent == getParentFolderPath(path)
    IN /\ specificFolder # Root
       /\ Len(parent) >= Len(specificFolder)
       /\ SubSeq(parent, 1, Len(specificFolder)) = specificFolder

InDesignatedFolder(path, specificFolder) ==
    /\ specificFolder # Root
    /\ getParentFolderPath(path) = specificFolder

PassesFolderCheck(cfg, path) ==
    cfg.transcribeOnlySpecificFolder =>
        InDesignatedFolder(path, cfg.specificFolderForTranscription)

\* handleFileCreate: a file whose path handleEditorDrop has flagged is not
\* offered to the queue, and the flag is removed; any other image that
\* passes the folder check and whose path is not in the processingPaths lock
\* set is offered (the handler adds the path to the set, calls addToQueue
\* and deletes the path again, all in one synchronous stretch)
handleFileCreate(s, fs, cfg, dropped, locked, f) ==
    IF fs[f] \in dropped
    THEN [ sched |-> s, dropped |-> dropped \ { fs[f] } ]
    ELSE IF ~PassesFolderCheck(cfg, fs[f])
    THEN [ sched |-> s, dropped |-> dropped ]
    ELSE IF fs[f] \in locked
    THEN [ sched |-> s, dropped |-> dropped ]
    ELSE [ sched |-> addToQueue(s, fs, cfg, f), dropped |-> dropped ]

NoEditorDrop == [ pc |-> "idle", file |-> 0, path |-> Root ]

\* ------------------------------------------------------- persisted settings
\* the processedImagePaths member of what loadData() returns: no data at
\* all, data without the member, a member that is null or some other
\* non-array, or a list of paths
NoImport == [ pc |-> "idle", path |-> Root, file |-> 0 ]

AbsentData == [ kind |-> "absent", list |-> << >> ]

ListData(list) == [ kind |-> "list", list |-> list ]

\* loadSettings: the defaults, the loaded data assigned over them, and the
\* guard that replaces a missing or non-array history by []
loadSettingsUnguarded(data) ==
    [ isArray |-> data.kind \in { "absent", "noField", "list" },
      items |-> IF data.kind = "list" THEN data.list ELSE << >> ]

loadSettings(data) ==
    LET merged == [ isArray |-> data.kind \in { "absent", "noField", "list" },
                    falsy |-> data.kind = "null",
                    items |-> IF data.kind = "list" THEN data.list ELSE << >> ]
    IN IF merged.falsy \/ ~merged.isArray
       THEN [ isArray |-> TRUE, items |-> << >> ]
       ELSE [ isArray |-> merged.isArray, items |-> merged.items ]

\* ------------------------------------------------------------------ Init
Init ==
    /\ files = << >>
    /\ folders = { NotesDir }
    /\ notes = << >>
    /\ settings \in Configs
    /\ processedImagePaths = << >>
    /\ persisted = << >>
    /\ queue = << >>
    /\ isProcessing = FALSE
    /\ processing = 0
    /\ activeJobs = 0
    /\ maxConcurrent = DefaultMaxConcurrent
    /\ run = << >>
    /\ inFlight = 0
    /\ startOrder = << >>
    /\ restarts = 0
    /\ faults = 0
    /\ droppedInEditorPaths = {}
    /\ editorDrop = NoEditorDrop
    /\ clearSaving = FALSE
    /\ processingPaths = {}
    /\ importer = NoImport
    /\ imports = 0
    /\ clears = 0
    /\ loadedData = AbsentData
    /\ historyIsArray = loadSettings(AbsentData).isArray

vaultVars == << files, folders, notes >>
historyVars == << processedImagePaths, persisted >>
editorVars == << droppedInEditorPaths, editorDrop >>
clearVars == << clearSaving, clears >>
loadVars == << loadedData, historyIsArray >>
importVars == << processingPaths, importer, imports >>

\* --------------------------------------------------- environment actions
\* the user drops a new image file into the vault; the vault's 'create'
\* event reaches handleFileCreate
DropFile(p) ==
    /\ Len(files) < MaxFiles
    /\ ~FileAt(files, p)
    /\ files' = Append(files, p)
    /\ LET r == handleFileCreate(Sched, files', settings, droppedInEditorPaths,
                                 processingPaths,
                                 Len(files) + 1)
       IN SetSched(r.sched) /\ droppedInEditorPaths' = r.dropped
    /\ UNCHANGED << folders, notes, settings, historyVars, restarts, faults,
                    editorDrop, clearVars, importVars, loadVars >>

\* handleFileCreate for a file that is already in the vault (the event
\* source offers it again)
HandleFileCreate(f) ==
    /\ f \in 1..Len(files)
    /\ LET r == handleFileCreate(Sched, files, settings, droppedInEditorPaths,
                                 processingPaths, f)
       IN SetSched(r.sched) /\ droppedInEditorPaths' = r.dropped
    /\ UNCHANGED << vaultVars, settings, historyVars, restarts, faults,
                    editorDrop, clearVars, importVars, loadVars >>

\* Math.max(1, Math.min(5, max))
ClampNone(n) == n

Clamp(n) ==
    LET lo == IF n < MaxConcurrent THEN n ELSE MaxConcurrent
    IN IF lo > MinConcurrent THEN lo ELSE MinConcurrent

SetMaxConcurrent(n) ==
    /\ maxConcurrent' = Clamp(n)
    /\ UNCHANGED << vaultVars, settings, historyVars, queue, isProcessing,
                    processing, activeJobs, run, inFlight, startOrder, restarts,
                    faults, editorVars, clearVars, importVars, loadVars >>

\* the plugin is reloaded while no job is in flight: a fresh plugin object
\* and queue, and the settings (with the history) as loadSettings reads them
\* back and saves them
Restart ==
    /\ restarts < MaxRestarts
    /\ inFlight = 0
    /\ queue # << >>
    /\ editorDrop.pc \in { "idle", "done" }
    /\ ~clearSaving
    /\ restarts' = restarts + 1
    /\ loadedData' = ListData(persisted)
    /\ processedImagePaths' = loadSettings(loadedData').items
    /\ historyIsArray' = loadSettings(loadedData').isArray
    /\ persisted' = processedImagePaths'
    /\ droppedInEditorPaths' = {}
    /\ queue' = << >>
    /\ run' = << >>
    /\ isProcessing' = FALSE
    /\ processing' = 0
    /\ activeJobs' = 0
    /\ maxConcurrent' = DefaultMaxConcurrent
    /\ inFlight' = 0
    /\ startOrder' = << >>
    /\ UNCHANGED << vaultVars, settings, faults, editorDrop, clearVars, importVars >>

\* ------------------------------------------------- the pipeline, per await
\* a collaborator call fails (throws or reports failure)
Fault == faults < MaxFaults /\ faults' = faults + 1
NoFault == UNCHANGED faults

At(j, pc) == j \in Jobs /\ run[j].pc = pc

\* after the folders are ensured: handleHeicConversion awaits the converter
\* for a HEIC file, any other file goes on to handleImageCompression
AfterFolders(path) == IF Extension(path) = "heic" THEN "convert" ELSE "compress"

\* ensureFolderExists(imageDestination, 'image') and
\* ensureFolderExists(noteDestination, 'note'); a failure of either is
\* rethrown to the outer catch of processImageFile
EnsureFolders(j) ==
    /\ At(j, "ensureFolders")
    /\ LET img == run[j].imageDestination
           note == run[j].noteDestination
           made(d) == IF d = Root THEN {} ELSE Prefixes(d)
       IN
       \/ /\ NoFault
          /\ folders' = folders \cup made(img) \cup made(note)
          /\ SetSched([ Sched EXCEPT !.run[j].pc =
                                       AfterFolders(files[run[j].fileToProcess]),
                                     !.run[j].foldersMade = folders' \ folders ])
       \/ /\ img # Root
          /\ Fault
          /\ UNCHANGED folders
          /\ SetSched(ReturnError(Sched, files, settings, j,
                                  "Unexpected processing error", "folder"))
       \/ /\ note # Root
          /\ Fault
          /\ folders' = folders \cup made(img)
          /\ SetSched(ReturnError([ Sched EXCEPT !.run[j].foldersMade =
                                                    folders' \ folders ],
                                  files, settings, j,
                                  "Unexpected processing error", "folder"))
    /\ UNCHANGED << files, notes, settings, historyVars, restarts,
                    editorVars, clearVars, importVars, loadVars >>

\* handleHeicConversion / convertHeicToJpg: a new JPG is created next to the
\* HEIC file (vault.createBinary), and its 'create' event reaches
\* handleFileCreate; createBinary throws when the JPG cannot be written, which
\* convertHeicToJpg turns into a null result
Convert(j) ==
    /\ At(j, "convert")
    /\ LET f == run[j].fileToProcess
           newFilePath == Join(getParentFolderPath(files[f]), JpgName(FileName(files[f])))
       IN
       \/ /\ ~FileAt(files, newFilePath)
          /\ Len(files) < MaxFiles
          /\ NoFault
          /\ files' = Append(files, newFilePath)
          /\ LET r == handleFileCreate(
                         [ Sched EXCEPT !.run[j].pc = "compress",
                                        !.run[j].fileToProcess = Len(files) + 1 ],
                         files', settings, droppedInEditorPaths,
                                 processingPaths, Len(files) + 1)
             IN SetSched(r.sched) /\ droppedInEditorPaths' = r.dropped
       \/ /\ IF FileAt(files, newFilePath) \/ Len(files) >= MaxFiles
             THEN NoFault ELSE Fault
          /\ UNCHANGED << files, droppedInEditorPaths >>
          /\ SetSched(ReturnError(Sched, files, settings, j,
                                  "HEIC conversion failed", "conversion"))
    /\ UNCHANGED << folders, notes, settings, historyVars, restarts,
                    editorDrop, clearVars, importVars, loadVars >>

\* Array.prototype.includes
IncludesNever(list, x) == FALSE

Includes(list, x) == \E i \in 1..Len(list) : list[i] = x

\* this.settings.processedImagePaths.includes(filePath)
isAlreadyProcessedNever(history, filePath) == FALSE

isAlreadyProcessed(history, filePath) == Includes(history, filePath)

\* normalizePath(`${targetFolder}/${fileToMove.name}`)
NewImagePath(targetFolder, path) == Join(targetFolder, FileName(path))

\* processImageFile from the return of handleFileMove to its next await:
\* final file reference, idempotency check, transcription request
AfterMove(s, fs, cfg, history, j, finalPath) ==
    IF ~FileAt(fs, finalPath)
    THEN ReturnError(s, fs, cfg, j,
                     "Internal error: Could not get final file reference", "finalRef")
    ELSE IF isAlreadyProcessed(history, finalPath)
    THEN ReturnDone([ s EXCEPT !.run[j].finalPath = finalPath,
                               !.run[j].knownAtCheck = Includes(history, finalPath) ],
                    fs, cfg, j)
    ELSE [ s EXCEPT !.run[j].finalPath = finalPath,
                    !.run[j].knownAtCheck = Includes(history, finalPath),
                    !.run[j].fileToProcess = CHOOSE f \in 1..Len(fs) : fs[f] = finalPath,
                    !.run[j].transcribeCalls = @ + 1,
                    !.run[j].pc = "transcribe" ]

\* NotificationService: the number of notices a call shows to the user
notifyError(cfg) == 1

notifyVerbose(cfg) == IF cfg.verboseNotifications THEN 1 ELSE 0

\* handleImageCompression: a failed compression is reported by compressImage
\* (notifyError) and swallowed, the runner goes on with the original file
CompressionAbortsOnFailure(outcome) == outcome = "failed"

CompressionAborts(outcome) == FALSE

\* handleFileMove: a different file is already at the target path
DestinationOccupiedNever(fs, f, newImagePath) == FALSE

DestinationOccupied(fs, f, newImagePath) ==
    \E g \in 1..Len(fs) : g # f /\ fs[g] = newImagePath

\* handleFileMove returned null (stage: a name collision, or a failed move):
\* processImageFile marks the job and returns
MoveFailedWithoutReturn(s, fs, cfg, j, stage) ==
    [ s EXCEPT !.queue[j] = markAsError(@, "File move/folder handling failed"),
               !.run[j].failure = stage,
               !.run[j].errorNotices = @ + ErrorNotices(stage),
               !.run[j].transcribeCalls = @ + 1,
               !.run[j].pc = "transcribe" ]

MoveFailed(s, fs, cfg, j, stage) ==
    ReturnError(s, fs, cfg, j, "File move/folder handling failed", stage)

\* handleImageCompression returns (whatever compressImage did), then
\* handleFileMove runs up to the await of renameFile
Compress(j) ==
    /\ At(j, "compress")
    /\ \E outcome \in { "ok", "failed" } :
         /\ IF outcome = "failed" THEN Fault ELSE NoFault
         /\ LET f == run[j].fileToProcess
                newImagePath == NewImagePath(run[j].imageDestination, files[f])
                s == [ Sched EXCEPT !.run[j].compression = outcome,
                                    !.run[j].errorNotices =
                                        IF outcome = "failed" THEN @ + 1 ELSE @,
                                    !.run[j].compressionNotices =
                                        IF outcome = "failed"
                                        THEN @ + notifyError(settings)
                                        ELSE @ + notifyVerbose(settings) ]
            IN SetSched(
                 IF CompressionAborts(outcome)
                 THEN ReturnError(s, files, settings, j,
                                  "Unexpected processing error", "compression")
                 ELSE IF newImagePath = files[f]
                 THEN AfterMove(s, files, settings, processedImagePaths, j, files[f])
                 ELSE IF DestinationOccupied(files, f, newImagePath)
                 THEN MoveFailed(s, files, settings, j, "collision")
                 ELSE [ s EXCEPT !.run[j].pc = "move" ])
    /\ UNCHANGED << vaultVars, settings, historyVars, restarts,
                    editorVars, clearVars, importVars, loadVars >>

\* fileManager.renameFile settles
Move(j) ==
    /\ At(j, "move")
    /\ LET f == run[j].fileToProcess
           newImagePath == NewImagePath(run[j].imageDestination, files[f])
       IN
       \/ /\ ~FileAt(files, newImagePath)
          /\ NoFault
          /\ files' = [ files EXCEPT ![f] = newImagePath ]
          /\ SetSched(AfterMove([ Sched EXCEPT !.run[j].moves = @ + 1 ],
                                files', settings, processedImagePaths, j,
                                newImagePath))
       \/ /\ IF FileAt(files, newImagePath) THEN NoFault ELSE Fault
          /\ UNCHANGED files
          /\ SetSched(MoveFailed(Sched, files, settings, j, "move"))
    /\ UNCHANGED << folders, notes, settings, historyVars, restarts,
                    editorVars, clearVars, importVars, loadVars >>

\* aiService.transcribeImage settles
Transcribe(j) ==
    /\ At(j, "transcribe")
    /\ \/ /\ NoFault
          /\ SetSched([ Sched EXCEPT !.run[j].pc = "createNote",
                                     !.run[j].noteCalls = @ + 1 ])
       \/ /\ Fault
          /\ SetSched(ReturnError(Sched, files, settings, j,
                                  "Transcription or Note creation failed",
                                  "transcription"))
    /\ UNCHANGED << vaultVars, settings, historyVars, restarts,
                    editorVars, clearVars, importVars, loadVars >>

\* runTranscriptionAndCreateNote reports success only for a note file
NoteCreatedAlways(noteFile) == TRUE

NoteCreated(noteFile) == noteFile

\* markAsProcessed, up to the await of saveSettings: the path is pushed
\* unless the list has it already
markAsProcessedInverted(history, filePath) ==
    IF Includes(history, filePath) THEN Append(history, filePath) ELSE history

markAsProcessed(history, filePath) ==
    IF ~Includes(history, filePath) THEN Append(history, filePath) ELSE history

\* NoteCreator.createNote: vault.create either writes the note or throws, and
\* a throw is turned into a null result with no file written
createNoteLeavesFile(noteList, noteFile, note) == Append(noteList, note)

createNote(noteList, noteFile, note) ==
    IF noteFile THEN Append(noteList, note) ELSE noteList

\* noteCreator.createNote settles (noteFile: a note was written); on success
\* markAsProcessed runs up to the await of saveSettings
CreateNote(j) ==
    /\ At(j, "createNote")
    /\ \E noteFile \in BOOLEAN :
         /\ IF noteFile THEN NoFault ELSE Fault
         /\ notes' = createNote(notes, noteFile,
                                [ folder |-> run[j].noteDestination,
                                  image |-> files[run[j].fileToProcess],
                                  by |-> j, session |-> restarts ])
         /\ IF NoteCreated(noteFile)
            THEN /\ processedImagePaths' =
                       markAsProcessed(processedImagePaths, run[j].finalPath)
                 /\ IF processedImagePaths' # processedImagePaths
                    THEN SetSched([ Sched EXCEPT
                                      !.run[j].pc = "save",
                                      !.run[j].saving = processedImagePaths' ])
                    ELSE SetSched(ReturnDone(Sched, files, settings, j))
            ELSE /\ UNCHANGED processedImagePaths
                 /\ SetSched(ReturnError(Sched, files, settings, j,
                                         "Transcription or Note creation failed",
                                         "note"))
    /\ UNCHANGED << files, folders, settings, persisted, restarts,
                    editorVars, clearVars, importVars, loadVars >>

\* saveSettings rejected: the catch block of markAsProcessed logs, notifies
\* and returns normally, and processImageFile goes on to markAsDone
SaveFailedRethrown(s, fs, cfg, j) ==
    ReturnError([ s EXCEPT !.run[j].errorNotices = @ + 1 ], fs, cfg, j,
                "Unexpected processing error", "save")

SaveFailed(s, fs, cfg, j) ==
    ReturnDone([ s EXCEPT !.run[j].failure = "save",
                          !.run[j].errorNotices = @ + 1 ],
               fs, cfg, j)

\* saveSettings settles (a failure is logged, notified as an error and
\* swallowed by markAsProcessed)
Save(j) ==
    /\ At(j, "save")
    /\ \/ /\ NoFault
          /\ persisted' = run[j].saving
          /\ SetSched(ReturnDone(Sched, files, settings, j))
       \/ /\ Fault
          /\ UNCHANGED persisted
          /\ SetSched(SaveFailed(Sched, files, settings, j))
    /\ UNCHANGED << vaultVars, settings, processedImagePaths, restarts,
                    editorVars, clearVars, importVars, loadVars >>

Step(j) ==
    \/ EnsureFolders(j)
    \/ Convert(j)
    \/ Compress(j)
    \/ Move(j)
    \/ Transcribe(j)
    \/ CreateNote(j)
    \/ Save(j)

Next ==
    \/ \E p \in DropPaths : DropFile(p)
    \/ \E f \in 1..MaxFiles : HandleFileCreate(f)
    \/ \E n \in 0..MaxLimitArg : SetMaxConcurrent(n)
    \/ Restart
    \/ \E j \in 1..MaxFiles : Step(j)

Spec == Init /\ [][Next]_vars

\* One session of the plugin (no reload), in which every collaborator call
\* eventually returns or throws, so every await of a job that is being run
\* is eventually resumed.  The event source is not obliged to do anything.
SessionNext ==
    \/ \E p \in DropPaths : DropFile(p)
    \/ \E f \in 1..MaxFiles : HandleFileCreate(f)
    \/ \E n \in 0..MaxLimitArg : SetMaxConcurrent(n)
    \/ \E j \in 1..MaxFiles : Step(j)

LiveSpec ==
    /\ Init
    /\ [][SessionNext]_vars
    /\ WF_vars(\E j \in 1..MaxFiles : Step(j))

\* ------------------------------------- the scheduler under any callback
\* setProcessCallback accepts any function: while it runs for a job it may
\* call markAsDone / markAsError on it, in any order, and its promise
\* resolves or rejects.
CallbackReasons == { "callback failed" }
ThrownMessages == { "callback threw" }

InCallback(j) == j \in Jobs /\ run[j].pc \notin { "waiting", "returned" }

CallbackMarkDone(j) ==
    /\ InCallback(j)
    /\ SetSched([ Sched EXCEPT !.queue[j] = markAsDone(@) ])
    /\ UNCHANGED << vaultVars, settings, historyVars, restarts, faults,
                    editorVars, clearVars, importVars, loadVars >>

CallbackMarkError(j, reason) ==
    /\ InCallback(j)
    /\ SetSched([ Sched EXCEPT !.queue[j] = markAsError(@, reason) ])
    /\ UNCHANGED << vaultVars, settings, historyVars, restarts, faults,
                    editorVars, clearVars, importVars, loadVars >>

\* the callback's promise resolves (a job it left pending is found again by
\* the processNext call of the finally block)
CallbackReturn(j) ==
    /\ InCallback(j)
    /\ queue[j].status # "pending" \/ run[j].invocations < MaxInvocations
    /\ SetSched(Finally(Sched, files, settings, j))
    /\ UNCHANGED << vaultVars, settings, historyVars, restarts, faults,
                    editorVars, clearVars, importVars, loadVars >>

\* the callback's promise rejects
CallbackThrow(j, errorMessage) ==
    /\ InCallback(j)
    /\ SetSched(Thrown(Sched, files, settings, j, errorMessage))
    /\ UNCHANGED << vaultVars, settings, historyVars, restarts, faults,
                    editorVars, clearVars, importVars, loadVars >>

QueueNext ==
    \/ \E p \in DropPaths : DropFile(p)
    \/ \E f \in 1..MaxFiles : HandleFileCreate(f)
    \/ \E n \in 0..MaxLimitArg : SetMaxConcurrent(n)
    \/ \E j \in 1..MaxFiles : CallbackMarkDone(j)
    \/ \E j \in 1..MaxFiles : \E r \in CallbackReasons : CallbackMarkError(j, r)
    \/ \E j \in 1..MaxFiles : CallbackReturn(j)
    \/ \E j \in 1..MaxFiles : \E m \in ThrownMessages : CallbackThrow(j, m)

QueueSpec == Init /\ [][QueueNext]_vars

\* --------------------------------------------------- drops into the editor
\* where Obsidian saves an image dropped into a note of Notes, and the next
\* free name getAvailablePathForAttachment gives when that one is taken
EditorDropPath == << "Notes", "e.jpg" >>
EditorDropPathTaken == << "Notes", "e 1.jpg" >>

\* fileManager.getAvailablePathForAttachment(file.name, sourcePath)
getAvailablePathForAttachment(fs) ==
    IF FileAt(fs, EditorDropPath) THEN EditorDropPathTaken ELSE EditorDropPath

\* an image is dropped into the editor: handleEditorDrop runs up to the
\* await of getAvailablePathForAttachment
EditorDrop ==
    /\ editorDrop.pc = "idle"
    /\ ~FileAt(files, EditorDropPath)
    /\ Len(files) < MaxFiles
    /\ editorDrop' = [ editorDrop EXCEPT !.pc = "awaitPath" ]
    /\ UNCHANGED << vaultVars, settings, historyVars, queue, isProcessing,
                    processing, activeJobs, maxConcurrent, run, inFlight,
                    startOrder, restarts, faults, droppedInEditorPaths,
                    clearVars, importVars, loadVars >>

\* Obsidian's own drop handling writes the attachment; its 'create' event
\* reaches handleFileCreate
AttachmentCreated ==
    /\ editorDrop.pc # "idle"
    /\ editorDrop.file = 0
    /\ ~FileAt(files, EditorDropPath)
    /\ Len(files) < MaxFiles
    /\ files' = Append(files, EditorDropPath)
    /\ editorDrop' = [ editorDrop EXCEPT !.file = Len(files) + 1 ]
    /\ LET r == handleFileCreate(Sched, files', settings, droppedInEditorPaths,
                                 processingPaths,
                                 Len(files) + 1)
       IN SetSched(r.sched) /\ droppedInEditorPaths' = r.dropped
    /\ UNCHANGED << folders, notes, settings, historyVars, restarts, faults,
                    clearVars, importVars, loadVars >>

\* the anticipated path arrives: it is flagged and the 1.5 s cleanup timer
\* is set
EditorPathResolved ==
    /\ editorDrop.pc = "awaitPath"
    /\ LET destinationPath == getAvailablePathForAttachment(files)
       IN /\ droppedInEditorPaths' = droppedInEditorPaths \cup { destinationPath }
          /\ editorDrop' = [ editorDrop EXCEPT !.pc = "flagged",
                                               !.path = destinationPath ]
    /\ UNCHANGED << vaultVars, settings, historyVars, queue, isProcessing,
                    processing, activeJobs, maxConcurrent, run, inFlight,
                    startOrder, restarts, faults, clearVars, importVars, loadVars >>

\* the cleanup timer fires
EditorFlagTimeout ==
    /\ editorDrop.pc = "flagged"
    /\ droppedInEditorPaths' = droppedInEditorPaths \ { editorDrop.path }
    /\ editorDrop' = [ editorDrop EXCEPT !.pc = "done" ]
    /\ UNCHANGED << vaultVars, settings, historyVars, queue, isProcessing,
                    processing, activeJobs, maxConcurrent, run, inFlight,
                    startOrder, restarts, faults, clearVars, importVars, loadVars >>

EditorNext ==
    \/ EditorDrop
    \/ AttachmentCreated
    \/ EditorPathResolved
    \/ EditorFlagTimeout
    \/ \E p \in DropPaths : DropFile(p)
    \/ \E j \in 1..MaxFiles : Step(j)

EditorSpec == Init /\ [][EditorNext]_vars

\* ------------------------------------------------------- 'Clear history'
\* the button's handler up to the await of saveSettings: the history is
\* replaced by an empty list (cleared: whether a job in flight had pushed
\* its path by then)
ClearHistory ==
    /\ clears < MaxClears
    /\ ~clearSaving
    /\ clears' = clears + 1
    /\ processedImagePaths' = << >>
    /\ historyIsArray' = TRUE
    /\ clearSaving' = TRUE
    /\ run' = [ j \in DOMAIN run |->
                  IF run[j].pc \in { "waiting", "returned" } THEN run[j]
                  ELSE [ run[j] EXCEPT !.cleared =
                           IF run[j].pc = "save" \/ @ = "afterAppend"
                           THEN "afterAppend" ELSE "beforeAppend" ] ]
    /\ UNCHANGED << vaultVars, settings, persisted, queue, isProcessing,
                    processing, activeJobs, maxConcurrent, inFlight, startOrder,
                    restarts, faults, editorVars, loadedData, importVars >>

\* the handler's saveSettings settles
ClearSaved ==
    /\ clearSaving
    /\ clearSaving' = FALSE
    /\ UNCHANGED clears
    /\ \/ NoFault /\ persisted' = << >>
       \/ Fault /\ UNCHANGED persisted
    /\ UNCHANGED << vaultVars, settings, processedImagePaths, queue,
                    isProcessing, processing, activeJobs, maxConcurrent, run,
                    inFlight, startOrder, restarts, editorVars, loadVars,
                    importVars >>

ClearNext ==
    \/ ClearHistory
    \/ ClearSaved
    \/ \E p \in DropPaths : DropFile(p)
    \/ \E j \in 1..MaxFiles : Step(j)

\* every await of a job that is being run is eventually resumed
ClearSpec ==
    /\ Init
    /\ [][ClearNext]_vars
    /\ WF_vars(\E j \in 1..MaxFiles : Step(j))

\* ---------------------------------------------- loading any persisted data
LoadableData ==
    { AbsentData,
      [ kind |-> "noField", list |-> << >> ],
      [ kind |-> "null", list |-> << >> ],
      [ kind |-> "string", list |-> << >> ],
      ListData(<< >>),
      ListData(<< << "Notes", "Images", "a.jpg" >> >>),
      ListData(<< << "Pics", "a.jpg" >>, << "Notes", "Images", "a.jpg" >> >>) }

\* onload with whatever data.json holds: loadSettings and its saveSettings
LoadInit ==
    /\ files = << >>
    /\ folders = { NotesDir }
    /\ notes = << >>
    /\ settings \in Configs
    /\ loadedData \in LoadableData
    /\ processedImagePaths = loadSettings(loadedData).items
    /\ historyIsArray = loadSettings(loadedData).isArray
    /\ persisted = processedImagePaths
    /\ queue = << >>
    /\ isProcessing = FALSE
    /\ processing = 0
    /\ activeJobs = 0
    /\ maxConcurrent = DefaultMaxConcurrent
    /\ run = << >>
    /\ inFlight = 0
    /\ startOrder = << >>
    /\ restarts = 0
    /\ faults = 0
    /\ droppedInEditorPaths = {}
    /\ editorDrop = NoEditorDrop
    /\ clearSaving = FALSE
    /\ processingPaths = {}
    /\ importer = NoImport
    /\ imports = 0
    /\ clears = 0

LoadNext ==
    \/ \E p \in DropPaths : DropFile(p)
    \/ \E j \in 1..MaxFiles : Step(j)
    \/ Restart

LoadSpec == LoadInit /\ [][LoadNext]_vars

\* ------------------------------------------- any requested concurrency limit
\* the integers passed to setMaxConcurrent: below the range, in it, above it
LimitArgs == (0 - 2)..MaxLimitRequest

LimitNext ==
    \/ \E n \in LimitArgs : SetMaxConcurrent(n)
    \/ \E p \in DropPaths : DropFile(p)
    \/ \E f \in 1..MaxFiles : HandleFileCreate(f)
    \/ \E j \in 1..MaxFiles : Step(j)

LimitSpec == Init /\ [][LimitNext]_vars

\* --------------------------------------- every destination configuration
DestConfigs ==
    { [ DefaultSettings EXCEPT !.imageDestinationOption = io,
                               !.specificImageFolderPath = ip,
                               !.imageFolderName = name,
                               !.noteDestinationOption = no,
                               !.specificNoteFolderPath = np ] :
        io \in { "subfolder", "specificFolder" }, ip \in { Root, PicsDir },
        name \in { "", DefaultImageFolderName, "Scans" },
        no \in { "alongside", "specificFolder" }, np \in { Root, OutDir } }

DestInit ==
    /\ files = << >>
    /\ folders = { NotesDir }
    /\ notes = << >>
    /\ settings \in DestConfigs
    /\ processedImagePaths = << >>
    /\ persisted = << >>
    /\ queue = << >>
    /\ isProcessing = FALSE
    /\ processing = 0
    /\ activeJobs = 0
    /\ maxConcurrent = DefaultMaxConcurrent
    /\ run = << >>
    /\ inFlight = 0
    /\ startOrder = << >>
    /\ restarts = 0
    /\ faults = 0
    /\ droppedInEditorPaths = {}
    /\ editorDrop = NoEditorDrop
    /\ clearSaving = FALSE
    /\ processingPaths = {}
    /\ importer = NoImport
    /\ imports = 0
    /\ clears = 0
    /\ loadedData = AbsentData
    /\ historyIsArray = loadSettings(AbsentData).isArray

DestNext ==
    \/ \E p \in DropPaths : DropFile(p)
    \/ \E f \in 1..MaxFiles : HandleFileCreate(f)
    \/ \E j \in 1..MaxFiles : Step(j)

DestSpec == DestInit /\ [][DestNext]_vars

\* ------------------------------------- the folder-menu import handler
\* the files offered to the import handler, by destination path
ImportPaths == DropPaths

\* the finally block of the import loop: processingPaths.delete(destinationPath)
\* runs on every way out of the try block (outcome: "queued", "notQueued",
\* "exists" for the `continue`, "error" for the catch)
importFinallyUnlessSkipped(locked, destinationPath, outcome) ==
    IF outcome = "exists" THEN locked ELSE locked \ { destinationPath }

importFinally(locked, destinationPath, outcome) ==
    locked \ { destinationPath }

\* the loop takes up a selected file: a locked path is skipped, otherwise
\* the path is locked and browserFile.arrayBuffer() is awaited
ImportBegin(p) ==
    /\ importer.pc = "idle"
    /\ imports < MaxImports
    /\ imports' = imports + 1
    /\ IF p \in processingPaths
       THEN UNCHANGED << processingPaths, importer >>
       ELSE /\ processingPaths' = processingPaths \cup { p }
            /\ importer' = [ pc |-> "reading", path |-> p, file |-> 0 ]
    /\ UNCHANGED << vaultVars, settings, historyVars, queue, isProcessing,
                    processing, activeJobs, maxConcurrent, run, inFlight,
                    startOrder, restarts, faults, editorVars, clearVars,
                    loadVars >>

\* arrayBuffer() settles: a rejection goes to the catch block; a file that
\* exists at the destination is skipped; otherwise createBinary is awaited
ImportRead ==
    /\ importer.pc = "reading"
    /\ \/ /\ Fault
          /\ processingPaths' =
                 importFinally(processingPaths, importer.path, "error")
          /\ importer' = NoImport
       \/ /\ NoFault
          /\ FileAt(files, importer.path)
          /\ processingPaths' =
                 importFinally(processingPaths, importer.path, "exists")
          /\ importer' = NoImport
       \/ /\ NoFault
          /\ ~FileAt(files, importer.path)
          /\ importer' = [ importer EXCEPT !.pc = "creating" ]
          /\ UNCHANGED processingPaths
    /\ UNCHANGED << vaultVars, settings, historyVars, queue, isProcessing,
                    processing, activeJobs, maxConcurrent, run, inFlight,
                    startOrder, restarts, editorVars, clearVars, loadVars,
                    imports >>

\* vault.createBinary writes the file (its 'create' event may reach
\* handleFileCreate from now on), or throws
ImportWrite ==
    /\ importer.pc = "creating"
    /\ \/ /\ ~FileAt(files, importer.path)
          /\ Len(files) < MaxFiles
          /\ NoFault
          /\ files' = Append(files, importer.path)
          /\ importer' = [ importer EXCEPT !.pc = "created",
                                           !.file = Len(files) + 1 ]
          /\ UNCHANGED processingPaths
       \/ /\ IF FileAt(files, importer.path) \/ Len(files) >= MaxFiles
             THEN NoFault ELSE Fault
          /\ UNCHANGED files
          /\ processingPaths' =
                 importFinally(processingPaths, importer.path, "error")
          /\ importer' = NoImport
    /\ UNCHANGED << folders, notes, settings, historyVars, queue, isProcessing,
                    processing, activeJobs, maxConcurrent, run, inFlight,
                    startOrder, restarts, editorVars, clearVars, loadVars,
                    imports >>

\* the promise of createBinary resolves: the handler applies the
\* folder-specific transcription check to the target folder, calls
\* addToQueue itself, and the finally block releases the path
ImportResolved ==
    /\ importer.pc = "created"
    /\ LET shouldQueue == PassesFolderCheck(settings, importer.path)
       IN /\ SetSched(IF shouldQueue
                      THEN addToQueue(Sched, files, settings, importer.file)
                      ELSE Sched)
          /\ processingPaths' =
                 importFinally(processingPaths, importer.path,
                               IF shouldQueue THEN "queued" ELSE "notQueued")
    /\ importer' = [ importer EXCEPT !.pc = "idle" ]
    /\ UNCHANGED << vaultVars, settings, historyVars, restarts, faults,
                    editorVars, clearVars, loadVars, imports >>

ImportNext ==
    \/ \E p \in ImportPaths : ImportBegin(p)
    \/ ImportRead
    \/ ImportWrite
    \/ ImportResolved
    \/ \E p \in DropPaths : DropFile(p)
    \/ \E f \in 1..MaxFiles : HandleFileCreate(f)
    \/ \E j \in 1..MaxFiles : Step(j)

ImportSpec == Init /\ [][ImportNext]_vars

\* ------------------------------ transcription from one selected folder only
FolderConfigs ==
    { DefaultSettings } \cup
    { [ DefaultSettings EXCEPT !.transcribeOnlySpecificFolder = TRUE,
                               !.specificFolderForTranscription = d ] :
        d \in { Root, NotesDir, PicsDir, Join(NotesDir, DefaultImageFolderName) } }

FolderInit ==
    /\ files = << >>
    /\ folders = { NotesDir }
    /\ notes = << >>
    /\ settings \in FolderConfigs
    /\ processedImagePaths = << >>
    /\ persisted = << >>
    /\ queue = << >>
    /\ isProcessing = FALSE
    /\ processing = 0
    /\ activeJobs = 0
    /\ maxConcurrent = DefaultMaxConcurrent
    /\ run = << >>
    /\ inFlight = 0
    /\ startOrder = << >>
    /\ restarts = 0
    /\ faults = 0
    /\ droppedInEditorPaths = {}
    /\ editorDrop = NoEditorDrop
    /\ clearSaving = FALSE
    /\ processingPaths = {}
    /\ importer = NoImport
    /\ imports = 0
    /\ clears = 0
    /\ loadedData = AbsentData
    /\ historyIsArray = loadSettings(AbsentData).isArray

FolderNext ==
    \/ \E p \in DropPaths : DropFile(p)
    \/ \E f \in 1..MaxFiles : HandleFileCreate(f)
    \/ \E j \in 1..MaxFiles : Step(j)
    \/ Restart

FolderSpec == FolderInit /\ [][FolderNext]_vars

\* ------------------------------------------------------------ observers
Terminal(j) == queue[j].status \in { "done", "error" }
Active(j) == queue[j].status \in { "pending", "processing" }
Running(j) == run[j].pc \notin { "waiting", "returned" }
Waiting(j) == run[j].pc = "waiting"
PathOf(j) == files[queue[j].initialFile]

\* ------------------------------------------------------------------ claims

\* C1: in every reachable state, no two distinct jobs that are pending or
\* processing have the same initialFile.path, and no two jobs the runner is
\* executing have the same initialFile.path.
C1_OneActiveJobPerPath ==
    \A i \in Jobs : \A j \in Jobs :
        i # j /\ PathOf(i) = PathOf(j) =>
            /\ ~(Active(i) /\ Active(j))
            /\ ~(Running(i) /\ Running(j))

\* several jobs are pending/processing at once (on distinct paths) while the
\* runner executes one of them
C1_Witness ==
    /\ Len(queue) >= 2
    /\ Active(1) /\ Active(2)
    /\ Running(1)

\* C2: offering a file whose path already has a pending or processing job
\* leaves the job list, every job's status and the runner invocations as
\* they were.
C2_DuplicateEnqueueIsNoOp ==
    [][ \A f \in 1..MaxFiles :
          ( /\ f \in 1..Len(files)
            /\ \E j \in Jobs : Active(j) /\ PathOf(j) = files[f]
            /\ HandleFileCreate(f) )
          => UNCHANGED << queue, run, inFlight, startOrder, activeJobs,
                          isProcessing, processing >> ]_vars

\* a job is being run and its file is still in the vault, so the event
\* source can offer it a second time
C2_Witness ==
    \E j \in Jobs : Active(j) /\ Running(j) /\ run[j].pc = "transcribe"

\* C3: every admitted job eventually is handed to the runner and ends in
\* exactly one of done / error (a terminal status is never changed again),
\* and whenever no runner invocation is in flight no job is left pending or
\* processing (the scheduler needs no further enqueue to go on).
C3_EveryJobTerminates ==
    /\ \A j \in 1..MaxFiles :
          (j \in Jobs) ~> (j \in Jobs /\ Terminal(j) /\ run[j].invocations >= 1)
    /\ [](inFlight = 0 => \A j \in Jobs : Terminal(j) /\ run[j].pc = "returned")
    /\ [][ \A j \in 1..MaxFiles :
             (j \in DOMAIN queue /\ Terminal(j)) =>
                 (j \in DOMAIN queue' /\ queue'[j] = queue[j]) ]_vars

\* a job that had to wait behind another one has been run to an end
C3_Witness ==
    /\ Len(queue) >= 2
    /\ Terminal(1) /\ Terminal(2)
    /\ run[2].pc = "returned"
    /\ inFlight = 0

\* C4: the number of jobs the runner is executing never exceeds the
\* concurrency limit, whatever is enqueued and however long the
\* collaborators block.
C4_RunningWithinLimit ==
    /\ inFlight <= maxConcurrent
    /\ Cardinality({ j \in Jobs : Running(j) }) <= maxConcurrent

\* more unfinished jobs than the limit allows, none of which has returned
C4_Witness ==
    /\ Len(queue) > maxConcurrent
    /\ \A j \in Jobs : ~Terminal(j)
    /\ \E j \in Jobs : Running(j)

\* C5: whenever fewer jobs are being run than the limit allows, no admitted
\* job is left waiting (with limit 2, a second job admitted while the first
\* is blocked is run at the same time as the first).
C5_StartsWhenSlotFree ==
    \A j \in Jobs : Waiting(j) => inFlight >= maxConcurrent

\* C6: the runner is never invoked while an earlier invocation has not
\* returned: at most one invocation is in flight.
C6_OneAfterTheOther ==
    /\ inFlight <= 1
    /\ Cardinality({ j \in Jobs : Running(j) }) <= 1

\* the second of two queued jobs is being run after the first has returned
C6_Witness ==
    /\ Len(queue) >= 2
    /\ run[1].pc = "returned"
    /\ Running(2)

\* C7: the runner is invoked for jobs in the order of their admission (jobs
\* are numbered in admission order).
C7_FifoStart ==
    \A a \in 1..Len(startOrder) : \A b \in 1..Len(startOrder) :
        a < b => startOrder[a] < startOrder[b]

\* two jobs waited behind the first; the earlier of them was started first
C7_Witness ==
    /\ Len(queue) = 3
    /\ startOrder = << 1, 2 >>
    /\ Waiting(3)

NotesA == << "Notes", "a.jpg" >>
ImagesA == << "Notes", "Images", "a.jpg" >>

\* C8: a job whose final path is in the history when the idempotency check
\* runs is done, with no call to the transcription provider or the note
\* creator, and the check leaves the history (and the notes) unchanged.
C8_KnownPathIsSkipped ==
    /\ [](\A j \in Jobs :
            run[j].knownAtCheck =>
                /\ queue[j].status = "done"
                /\ run[j].pc = "returned"
                /\ run[j].transcribeCalls = 0
                /\ run[j].noteCalls = 0)
    /\ [][ \A j \in 1..MaxFiles :
             ( /\ j \in DOMAIN run /\ j \in DOMAIN run'
               /\ ~run[j].knownAtCheck /\ run'[j].knownAtCheck )
             => UNCHANGED << processedImagePaths, persisted, notes >> ]_vars

\* a job found its final path in the history and was marked done
C8_Witness ==
    \E j \in Jobs : run[j].knownAtCheck /\ queue[j].status = "done"

\* C9: under the default settings, a job admitted (after a reload) for an
\* image that sits in Notes/Images and is recorded in the history does not
\* move the image, does not call the transcription provider, and ends done.
C9_ReadmittedImageIsSkipped ==
    \A j \in Jobs :
        ( /\ settings = DefaultSettings
          /\ restarts >= 1
          /\ run[j].admittedAs = ImagesA
          /\ Includes(processedImagePaths, ImagesA) )
        => /\ run[j].moves = 0
           /\ run[j].transcribeCalls = 0
           /\ (run[j].pc = "returned" => queue[j].status = "done")

\* C10: under the default settings, when the job admitted for Notes/a.jpg
\* ends without any collaborator failure or name collision, and its final
\* path was not in the history beforehand, it is done, the image is at
\* Notes/Images/a.jpg, the job's note is in Notes, and Notes/Images/a.jpg is
\* in the history, in memory and as persisted.
C10_DefaultScenario ==
    [][ \A j \in 1..MaxFiles :
          ( /\ j \in DOMAIN queue /\ j \in DOMAIN queue'
            /\ settings = DefaultSettings
            /\ run[j].admittedAs = NotesA
            /\ ~Terminal(j)
            /\ queue'[j].status \in { "done", "error" }
            /\ run'[j].failure = "none"
            /\ ~run'[j].knownAtCheck )
          => /\ queue'[j].status = "done"
             /\ files'[queue'[j].initialFile] = ImagesA
             /\ \E n \in 1..Len(notes') :
                    /\ notes'[n].folder = NotesDir
                    /\ notes'[n].image = ImagesA
                    /\ notes'[n].by = j
                    /\ notes'[n].session = restarts
             /\ Includes(processedImagePaths', ImagesA)
             /\ Includes(persisted', ImagesA) ]_vars

\* the job admitted for Notes/a.jpg is done and the image is in Notes/Images
C10_Witness ==
    \E j \in Jobs :
        /\ settings = DefaultSettings
        /\ run[j].admittedAs = NotesA
        /\ queue[j].status = "done"
        /\ run[j].failure = "none"
        /\ ~run[j].knownAtCheck
        /\ PathOf(j) = ImagesA
        /\ Includes(processedImagePaths, ImagesA)

\* C11: every path in the history has a note written for that image, and a
\* path enters the history only in the step in which the job that adds it
\* gets its note from the note creator, after that job's transcription: the
\* append never precedes the note.
C11_HistoryAfterNote ==
    /\ [](\A i \in 1..Len(processedImagePaths) :
            \E n \in 1..Len(notes) : notes[n].image = processedImagePaths[i])
    /\ [][ \A i \in 1..Len(processedImagePaths') :
             ~Includes(processedImagePaths, processedImagePaths'[i]) =>
                 \E j \in DOMAIN run :
                     /\ run[j].pc = "createNote"
                     /\ run[j].finalPath = processedImagePaths'[i]
                     /\ run[j].transcribeCalls >= 1
                     /\ run[j].noteCalls >= 1
                     /\ Len(notes') = Len(notes) + 1
                     /\ notes'[Len(notes')].by = j
                     /\ notes'[Len(notes')].session = restarts
                     /\ notes'[Len(notes')].image = processedImagePaths'[i] ]_vars

\* a job has its note and has pushed its final path, the save is pending
C11_Witness ==
    \E j \in Jobs :
        /\ run[j].pc = "save"
        /\ Includes(processedImagePaths, run[j].finalPath)
        /\ \E n \in 1..Len(notes) : notes[n].by = j /\ notes[n].session = restarts

\* C12: a job that went through transcription and note creation is done only
\* if its final path is in the history and in the history as persisted.
C12_DoneOnlyAfterPersist ==
    \A j \in Jobs :
        queue[j].status = "done" /\ run[j].noteCalls >= 1 =>
            /\ Includes(processedImagePaths, run[j].finalPath)
            /\ Includes(persisted, run[j].finalPath)

\* C13: when handleFileMove finds a different file at the computed
\* destination, that step ends the job in error, the vault is as it was (the
\* file at the destination and the working file stay where they are), and
\* neither the transcription provider nor the note creator is called; a job
\* that failed this way stays so.
C13_CollisionLeavesFilesAlone ==
    /\ [](\A j \in Jobs :
            run[j].failure = "collision" =>
                /\ queue[j].status = "error"
                /\ run[j].pc = "returned"
                /\ run[j].moves = 0
                /\ run[j].transcribeCalls = 0
                /\ run[j].noteCalls = 0)
    /\ [][ \A j \in 1..MaxFiles :
             ( /\ j \in DOMAIN run /\ j \in DOMAIN run'
               /\ run[j].pc = "compress" /\ run'[j].pc # "compress"
               /\ LET f == run[j].fileToProcess
                      target == NewImagePath(run[j].imageDestination, files[f])
                  IN /\ target # files[f]
                     /\ \E g \in 1..Len(files) : g # f /\ files[g] = target )
             => /\ queue'[j].status = "error"
                /\ run'[j].pc = "returned"
                /\ files' = files
                /\ notes' = notes
                /\ run'[j].moves = 0
                /\ run'[j].transcribeCalls = 0
                /\ run'[j].noteCalls = 0 ]_vars

\* a job ended in error because its destination was taken
C13_Witness ==
    \E j \in Jobs :
        /\ run[j].failure = "collision"
        /\ queue[j].status = "error"
        /\ \E g \in 1..Len(files) :
               /\ g # run[j].fileToProcess
               /\ files[g] = NewImagePath(run[j].imageDestination,
                                          files[run[j].fileToProcess])

\* C14: a job whose compression failed, and for which no other stage failed
\* (and whose final path was not in the history beforehand), ends done, with
\* the image in its destination folder (moved there unless it was there
\* already), a note written by the job and the final path in the history,
\* in memory and as persisted.
C14_CompressionFailureTolerated ==
    [][ \A j \in 1..MaxFiles :
          ( /\ j \in DOMAIN queue /\ j \in DOMAIN queue'
            /\ ~Terminal(j)
            /\ queue'[j].status \in { "done", "error" }
            /\ run'[j].compression = "failed"
            /\ run'[j].failure \in { "none", "compression" }
            /\ ~run'[j].knownAtCheck )
          => /\ queue'[j].status = "done"
             /\ files'[run'[j].fileToProcess] = run'[j].finalPath
             /\ getParentFolderPath(run'[j].finalPath) = run'[j].imageDestination
             /\ \E n \in 1..Len(notes') :
                    /\ notes'[n].by = j
                    /\ notes'[n].session = restarts
                    /\ notes'[n].image = run'[j].finalPath
             /\ Includes(processedImagePaths', run'[j].finalPath)
             /\ Includes(persisted', run'[j].finalPath) ]_vars

\* a job is done although its compression failed
C14_Witness ==
    \E j \in Jobs :
        /\ run[j].compression = "failed"
        /\ queue[j].status = "done"
        /\ run[j].moves = 1
        /\ \E n \in 1..Len(notes) : notes[n].by = j /\ notes[n].session = restarts
        /\ Includes(persisted, run[j].finalPath)

\* C17: once every job for a path is done or error and has returned, a
\* further enqueue of the file at that path is admitted as a new pending job
\* (and run at once, no other job being in flight).
C17_ReenqueueAfterTerminal ==
    \A f \in 1..Len(files) :
        ( /\ \E j \in Jobs : PathOf(j) = files[f]
          /\ \A j \in Jobs :
                 PathOf(j) = files[f] => Terminal(j) /\ run[j].pc = "returned" )
        => LET s == addToQueue(Sched, files, settings, f)
           IN /\ Len(s.queue) = Len(queue) + 1
              /\ s.queue[Len(s.queue)].initialFile = f
              /\ s.queue[Len(s.queue)].status = "pending"
              /\ (inFlight = 0 => s.run[Len(s.queue)].invocations = 1)

\* C15: a call of markAsDone or markAsError on a job that is done or error
\* leaves the job as it is: a done job stays done with no error reason, an
\* error job stays error with its reason.
C15_TerminalMarksAreKept ==
    [][ \A j \in 1..MaxFiles :
          ( /\ j \in DOMAIN queue /\ j \in DOMAIN queue'
            /\ Terminal(j)
            /\ \/ CallbackMarkDone(j)
               \/ \E r \in CallbackReasons : CallbackMarkError(j, r) )
          => queue'[j] = queue[j] ]_vars

C18_EditorDropIsNeverEnqueued ==
    \A j \in Jobs : queue[j].initialFile # editorDrop.file

\* C19 (as stated): the 'Clear history' step leaves every job and its
\* position as they are, and a job that is done after the history was
\* cleared while it was in flight has its final path in the history.
C19_ClearKeepsJobAndPath ==
    /\ [][ (~clearSaving /\ clearSaving') =>
             /\ queue' = queue
             /\ inFlight' = inFlight
             /\ \A j \in DOMAIN run : run'[j].pc = run[j].pc ]_vars
    /\ [][ \A j \in 1..MaxFiles :
             ( /\ j \in DOMAIN queue /\ j \in DOMAIN queue'
               /\ ~Terminal(j)
               /\ queue'[j].status = "done"
               /\ run'[j].cleared # "no" )
             => Includes(processedImagePaths', run'[j].finalPath) ]_vars

\* C19 (amended): the 'Clear history' step leaves every job and its position
\* as they are; a job in flight at that moment still ends done or error; and
\* if it ends done and every clear came before the job pushed its path, the
\* final path is in the history.
C19_ClearBeforeAppendKeepsPath ==
    /\ [][ (~clearSaving /\ clearSaving') =>
             /\ queue' = queue
             /\ inFlight' = inFlight
             /\ \A j \in DOMAIN run : run'[j].pc = run[j].pc ]_vars
    /\ (\E j \in Jobs : Running(j) /\ run[j].cleared # "no") ~> (inFlight = 0)
    /\ [](inFlight = 0 => \A j \in Jobs : Terminal(j) /\ run[j].pc = "returned")
    /\ [][ \A j \in 1..MaxFiles :
             ( /\ j \in DOMAIN queue /\ j \in DOMAIN queue'
               /\ ~Terminal(j)
               /\ queue'[j].status = "done"
               /\ run'[j].cleared = "beforeAppend" )
             => Includes(processedImagePaths', run'[j].finalPath) ]_vars

\* a job is done, the history was cleared while it was in flight, and the
\* history holds just the job's final path
C19_Witness ==
    \E j \in Jobs :
        /\ run[j].cleared = "beforeAppend"
        /\ queue[j].status = "done"
        /\ processedImagePaths = << run[j].finalPath >>

\* C20: the in-memory history is always an array; right after loadSettings it
\* is empty when the loaded data is absent, lacks the member or holds a
\* non-list, and equal to the loaded list otherwise (on a reload: the list
\* that was persisted).
C20_HistoryIsAlwaysAList ==
    /\ [](historyIsArray)
    /\ [](notes = << >> /\ restarts = 0 =>
            processedImagePaths =
                IF loadedData.kind = "list" THEN loadedData.list ELSE << >>)
    /\ [][ restarts' # restarts =>
             /\ loadedData' = [ kind |-> "list", list |-> persisted ]
             /\ processedImagePaths' = persisted ]_vars

\* the plugin was reloaded and read back a history a job had persisted
C20_Witness ==
    /\ restarts >= 1
    /\ loadedData.kind = "list"
    /\ Len(loadedData.list) >= 1
    /\ historyIsArray

\* C21: with 'transcribe only from a specific folder' enabled, every job was
\* admitted for a file whose parent folder was the selected folder (not a
\* sub-folder of it, not another folder), and with no folder selected there
\* is no job at all.
C21_OnlyTheSelectedFolder ==
    \A j \in Jobs :
        settings.transcribeOnlySpecificFolder =>
            /\ settings.specificFolderForTranscription # << >>
            /\ Len(run[j].admittedAs) =
                   Len(settings.specificFolderForTranscription) + 1
            /\ SubSeq(run[j].admittedAs, 1, Len(run[j].admittedAs) - 1) =
                   settings.specificFolderForTranscription

\* after a reload, a job was admitted from the selected folder while a file
\* in a sub-folder of it is in the vault and has no job
C21_Witness ==
    /\ settings.transcribeOnlySpecificFolder
    /\ restarts >= 1
    /\ Len(queue) >= 1
    /\ \E f \in 1..Len(files) :
           /\ Len(files[f]) > Len(settings.specificFolderForTranscription) + 1
           /\ \A j \in Jobs : queue[j].initialFile # f

\* C22: destination folders are provisioned only after format normalization
\* has succeeded: a job whose HEIC conversion failed has created no
\* destination folder.
C22_NoFolderBeforeConversion ==
    \A j \in Jobs :
        run[j].failure = "conversion" => run[j].foldersMade = {}

\* C23: a job that failed terminally is marked error, its runner has returned
\* and it has made no history commit; after a folder or conversion failure
\* there was no compression, move, transcription or note creation, after a
\* collision, a move failure or an unresolved final reference no
\* transcription or note creation, after a transcription failure no note
\* creation.
C23_FailureSkipsLaterStages ==
    \A j \in Jobs :
        LET r == run[j] IN
        /\ r.failure \in { "folder", "conversion", "collision", "move",
                           "finalRef", "transcription", "note" }
             => /\ queue[j].status = "error"
                /\ r.pc = "returned"
                /\ r.saving = << >>
        /\ r.failure \in { "folder", "conversion" }
             => /\ r.compression = "none"
                /\ r.moves = 0
                /\ r.transcribeCalls = 0
                /\ r.noteCalls = 0
        /\ r.failure \in { "collision", "move", "finalRef" }
             => /\ r.transcribeCalls = 0
                /\ r.noteCalls = 0
        /\ r.failure = "transcription" => r.noteCalls = 0

\* one job failed at the move after its compression step, another failed at
\* the transcription or the note after its move
C23_Witness ==
    /\ \E j \in Jobs :
           /\ run[j].failure \in { "collision", "move" }
           /\ run[j].compression # "none"
    /\ \E j \in Jobs :
           /\ run[j].failure \in { "transcription", "note" }
           /\ run[j].moves = 1

\* C24: the error reason of a failed job identifies the failing stage: two
\* jobs that failed in different stages carry different reasons, and a job
\* that failed in a classified stage (folder provisioning among them) does
\* not carry the unexpected-error reason.
C24_ReasonIdentifiesStage ==
    /\ \A j, k \in Jobs :
           /\ queue[j].status = "error"
           /\ queue[k].status = "error"
           /\ run[j].failure # run[k].failure
           => queue[j].error # queue[k].error
    /\ \A j \in Jobs :
           /\ queue[j].status = "error"
           /\ run[j].failure \in { "conversion", "collision", "folder", "move",
                                   "transcription", "note" }
           => queue[j].error # "Unexpected processing error"

\* C25: under the subfolder policy, a job started for a file whose parent
\* folder is named like the image subfolder keeps the image where it is (the
\* image destination is the file's folder) and puts the note in the parent
\* of that folder.
C25_ImageAlreadyInSubfolder ==
    \A j \in Jobs :
        LET parent == getParentFolderPath(run[j].admittedAs) IN
        ( /\ run[j].pc # "waiting"
          /\ settings.imageDestinationOption # "specificFolder"
          /\ settings.noteDestinationOption # "specificFolder"
          /\ parent # Root
          /\ parent[Len(parent)] = settings.imageFolderName )
        => /\ run[j].imageDestination = parent
           /\ run[j].noteDestination = getParentFolderPath(parent)
           /\ run[j].moves = 0

\* C26: the path of a job's initial file is never changed after admission:
\* it is, in every state, the path under which the job was admitted.
C26_InitialPathIsFrozen ==
    \A j \in Jobs : PathOf(j) = run[j].admittedAs

\* C27: the scheduler sets the status processing before it hands the job to
\* the runner: a job that its runner is executing has the status processing.
C27_ProcessingWhileRun ==
    \A j \in Jobs : Running(j) => queue[j].status = "processing"

\* C28: a job whose runner has returned is no longer in the job list, so
\* the list is empty whenever no runner is executing and no job is pending.
C28_FinishedJobsAreDiscarded ==
    /\ \A j \in Jobs : run[j].pc # "returned"
    /\ ( inFlight = 0 /\ (\A j \in Jobs : queue[j].status # "pending") )
         => queue = << >>

\* C29: the runner is invoked at most once for an admitted job, whatever it
\* does (marks done, marks error, throws, or returns without a mark).
C29_RunnerInvokedOnce ==
    \A j \in Jobs : run[j].invocations <= 1

\* C30: every job that ended in error has produced exactly one error
\* notification.
C30_OneErrorNoticePerFailedJob ==
    \A j \in Jobs :
        ( queue[j].status = "error" /\ run[j].pc = "returned" )
        => run[j].errorNotices = 1

\* C31: with verbose notifications disabled, a failing compression stage
\* shows no notification to the user.
C31_CompressionFailureIsVerboseOnly ==
    \A j \in Jobs :
        ( ~settings.verboseNotifications /\ run[j].compression = "failed" )
        => run[j].compressionNotices = 0

\* C32: the history has set semantics: no path occurs twice in the in-memory
\* list or in the persisted one, whatever jobs ran and whenever the history
\* was cleared, and committing a path that is in the list leaves the list
\* as it is.
C32_HistoryIsASet ==
    /\ \A i, k \in 1..Len(processedImagePaths) :
           i # k => processedImagePaths[i] # processedImagePaths[k]
    /\ \A i, k \in 1..Len(persisted) :
           i # k => persisted[i] # persisted[k]
    /\ \A i \in 1..Len(processedImagePaths) :
           markAsProcessed(processedImagePaths, processedImagePaths[i]) =
               processedImagePaths

\* after a clear, two jobs have committed their final paths
C32_Witness ==
    /\ clears >= 1
    /\ Len(processedImagePaths) >= 2
    /\ \E j, k \in Jobs :
           /\ j # k
           /\ queue[j].status = "done" /\ queue[k].status = "done"
           /\ run[j].saving # << >> /\ run[k].saving # << >>

\* C33: the history is never cleared here, and no two jobs create a note for
\* the same final image path.
C33_OneNotePerFinalPath ==
    \A i, k \in 1..Len(notes) :
        i # k => notes[i].image # notes[k].image

C35_FailedJobLeavesImageInPlace ==
    [][ \A j \in 1..MaxFiles :
          ( /\ j \in DOMAIN run /\ j \in DOMAIN run'
            /\ run[j].pc \in { "transcribe", "createNote" }
            /\ run'[j].failure \in { "transcription", "note" } )
          => /\ UNCHANGED << files, folders, notes >>
             /\ run'[j].pc = "returned"
             /\ files'[run'[j].fileToProcess] = run'[j].finalPath
             /\ getParentFolderPath(run'[j].finalPath) =
                    run'[j].imageDestination ]_vars

\* a job moved its image and then failed at the transcription or the note
C35_Witness ==
    \E j \in Jobs :
        /\ run[j].failure \in { "transcription", "note" }
        /\ run[j].moves = 1
        /\ run[j].admittedAs # run[j].finalPath
        /\ files[run[j].fileToProcess] = run[j].finalPath

\* C36: the active-job counter equals the number of runner invocations that
\* have not returned or thrown yet, lies within 0..limit, and is 0 whenever
\* the queue is not processing.
C36_ActiveJobsCountsInvocations ==
    /\ activeJobs = Cardinality({ j \in Jobs : Running(j) })
    /\ activeJobs \in 0..maxConcurrent
    /\ ~isProcessing => activeJobs = 0

\* one invocation threw and the next job's invocation is in flight
C36_Witness ==
    /\ activeJobs = 1
    /\ \E j \in Jobs : run[j].pc = "returned" /\ run[j].thrown # NoError
    /\ \E j \in Jobs : Running(j) /\ run[j].thrown = NoError

\* C37: the admission lock is always released: the lock set holds at most
\* the path the import handler is working on and is empty when the handler
\* is not working on a file, and every step that admits a job ends with that
\* job's path out of the lock set (the lock is not held while the job is run).
C37_LockIsReleased ==
    /\ [](processingPaths =
              IF importer.pc = "idle" THEN {} ELSE { importer.path })
    /\ [][ Len(queue') > Len(queue)
           => files'[queue'[Len(queue')].initialFile] \notin processingPaths' ]_vars

\* the handler has imported a file and admitted its job, which is being
\* run, and the lock set is empty
C37_Witness ==
    /\ importer.pc = "idle"
    /\ importer.file # 0
    /\ processingPaths = {}
    /\ \E j \in Jobs : queue[j].initialFile = importer.file /\ Running(j)

\* C38: a file has at most one job, and a job's runner is invoked at most
\* once.  For a file written by the import handler: a 'create' event that
\* reaches handleFileCreate while the handler holds the lock admits nothing,
\* and so does one that arrives after the handler has enqueued the file.
C38_ImportYieldsOneJob ==
    /\ \A f \in 1..Len(files) :
           Cardinality({ j \in Jobs : queue[j].initialFile = f }) <= 1
    /\ \A j \in Jobs : run[j].invocations <= 1
    /\ importer.pc = "created" =>
           handleFileCreate(Sched, files, settings, droppedInEditorPaths,
                            processingPaths, importer.file).sched = Sched
    /\ ( /\ importer.pc = "idle"
         /\ importer.file # 0
         /\ \E j \in Jobs : queue[j].initialFile = importer.file )
       => handleFileCreate(Sched, files, settings, droppedInEditorPaths,
                           processingPaths, importer.file).sched = Sched

\* the job of an imported file has moved the file and returned, so a late
\* 'create' event carries the file under its new path
C38_Witness ==
    /\ importer.pc = "idle"
    /\ importer.file # 0
    /\ files[importer.file] # importer.path
    /\ \E j \in Jobs :
           /\ queue[j].initialFile = importer.file
           /\ run[j].pc = "returned"

\* C39: when the runner is invoked for a job, the image destination is the
\* configured folder if the image policy is 'specific folder' and a path is
\* set, otherwise the subfolder (named "Images" when the name is empty) of
\* the initial file's parent folder; the note destination is the configured
\* folder if the note policy is 'specific folder' and a path is set,
\* otherwise the initial file's parent folder; no file has been moved by the
\* job at that point, and the destinations stay as computed.
C39_DestinationsFollowPolicy ==
    [][ \A j \in 1..MaxFiles :
          ( j \in DOMAIN run' /\ run'[j].pc # "waiting" )
          => IF j \in DOMAIN run /\ run[j].pc # "waiting"
             THEN /\ run'[j].imageDestination = run[j].imageDestination
                  /\ run'[j].noteDestination = run[j].noteDestination
             ELSE LET path == files'[queue'[j].initialFile]
                      parent == SubSeq(path, 1, Len(path) - 1)
                  IN /\ run'[j].imageDestination =
                         IF /\ settings.imageDestinationOption = "specificFolder"
                            /\ settings.specificImageFolderPath # << >>
                         THEN settings.specificImageFolderPath
                         ELSE Append(parent,
                                     IF settings.imageFolderName = ""
                                     THEN "Images"
                                     ELSE settings.imageFolderName)
                     /\ run'[j].noteDestination =
                         IF /\ settings.noteDestinationOption = "specificFolder"
                            /\ settings.specificNoteFolderPath # << >>
                         THEN settings.specificNoteFolderPath
                         ELSE parent
                     /\ run'[j].moves = 0 ]_vars

\* with the 'specific folder' image policy but no path set and an empty
\* subfolder name, a job has moved its image to Notes/Images, and its note
\* went to the configured note folder
C39_Witness ==
    /\ settings.imageDestinationOption = "specificFolder"
    /\ settings.specificImageFolderPath = << >>
    /\ settings.imageFolderName = ""
    /\ settings.noteDestinationOption = "specificFolder"
    /\ settings.specificNoteFolderPath # << >>
    /\ \E j \in Jobs :
           /\ run[j].moves = 1
           /\ run[j].finalPath = << "Notes", "Images", "a.jpg" >>
           /\ \E n \in 1..Len(notes) :
                  notes[n].by = j /\ notes[n].folder = settings.specificNoteFolderPath

\* C40: the concurrency limit is 2 initially, setMaxConcurrent(n) sets it to
\* min(5, max(1, n)) for every integer n, and it is always within 1..5.
C40_LimitIsClamped ==
    /\ maxConcurrent = 2
    /\ [](maxConcurrent \in 1..5)
    /\ [](\A n \in LimitArgs :
            Clamp(n) = LET m == IF n > 1 THEN n ELSE 1
                       IN IF m < 5 THEN m ELSE 5)
    /\ [][ \A n \in LimitArgs :
             SetMaxConcurrent(n)
             => maxConcurrent' = LET m == IF n > 1 THEN n ELSE 1
                                 IN IF m < 5 THEN m ELSE 5 ]_vars

\* the limit has been raised to its maximum while a job is being run
C40_Witness ==
    /\ maxConcurrent = 5
    /\ \E j \in Jobs : Running(j)

====
